---- MODULE Spec2Model ----
(***************************************************************************)
(* A model of src/app.js: the seeded city generator (mulberry32,           *)
(* createCity), the city lifecycle (disposeCity, regenerate, the keydown   *)
(* and slider handlers) and the traffic simulation (animate,               *)
(* updateTraffic).                                                         *)
(*                                                                         *)
(* Numbers.  TLC's integers are 32 bits wide and signed, so                *)
(*   - a 32-bit unsigned word is a pair <<hi, lo>> of 16-bit halves;       *)
(*   - a value a + k*u, u = n / 2^32 the generator's output, is the exact  *)
(*     fixed-point triple <<i, hi, lo>> = i + (hi*2^16 + lo) / 2^32 (every *)
(*     such value createCity computes has fewer than 53 significant bits,  *)
(*     so the JavaScript double holds it exactly);                         *)
(*   - a double of updateTraffic is [s, m, e] = s * m * 2^e with a 53-bit  *)
(*     mantissa m kept as base-2^15 limbs, rounded to nearest-even after   *)
(*     every operation as IEEE 754 does.                                   *)
(***************************************************************************)
EXTENDS Integers, Sequences, FiniteSets, TLC

\* The program's state.  A value that may be null or undefined is a sequence
\* of length at most one: <<>> for null, <<v>> for v.
VARIABLES
  booted,           \* the boot lines 524-526 have run
  city,             \* let city (226)
  buildingDensity,  \* let buildingDensity (227), in tenths
  isNight,          \* let isNight (57)
  scene,            \* the city groups that are children of the scene
  hud,              \* hud.textContent as set by regenerate
  disposal,         \* the dispose() calls of the last disposeCity on a city
  disposed,         \* the cities disposeCity has run on
  history,          \* the createCity calls so far, with what each returned
  lastDt,           \* dt of the last animation frame
  frames,           \* animation frames after the boot's
  lap               \* SpecWrap only: one vehicle driven round its cycle

vars == <<booted, city, buildingDensity, isNight, scene, hud, disposal, disposed,
          history, lastDt, frames, lap>>

(***************************************************************************)
(* 32-bit words                                                            *)
(***************************************************************************)

\* XorNibble[16*a + b + 1] = a XOR b for 4-bit a, b.
XorNibble ==
  << 0, 1, 2, 3, 4, 5, 6, 7, 8, 9,10,11,12,13,14,15,
     1, 0, 3, 2, 5, 4, 7, 6, 9, 8,11,10,13,12,15,14,
     2, 3, 0, 1, 6, 7, 4, 5,10,11, 8, 9,14,15,12,13,
     3, 2, 1, 0, 7, 6, 5, 4,11,10, 9, 8,15,14,13,12,
     4, 5, 6, 7, 0, 1, 2, 3,12,13,14,15, 8, 9,10,11,
     5, 4, 7, 6, 1, 0, 3, 2,13,12,15,14, 9, 8,11,10,
     6, 7, 4, 5, 2, 3, 0, 1,14,15,12,13,10,11, 8, 9,
     7, 6, 5, 4, 3, 2, 1, 0,15,14,13,12,11,10, 9, 8,
     8, 9,10,11,12,13,14,15, 0, 1, 2, 3, 4, 5, 6, 7,
     9, 8,11,10,13,12,15,14, 1, 0, 3, 2, 5, 4, 7, 6,
    10,11, 8, 9,14,15,12,13, 2, 3, 0, 1, 6, 7, 4, 5,
    11,10, 9, 8,15,14,13,12, 3, 2, 1, 0, 7, 6, 5, 4,
    12,13,14,15, 8, 9,10,11, 4, 5, 6, 7, 0, 1, 2, 3,
    13,12,15,14, 9, 8,11,10, 5, 4, 7, 6, 1, 0, 3, 2,
    14,15,12,13,10,11, 8, 9, 6, 7, 4, 5, 2, 3, 0, 1,
    15,14,13,12,11,10, 9, 8, 7, 6, 5, 4, 3, 2, 1, 0 >>

Xor8(a, b) ==
  XorNibble[(a \div 16) * 16 + (b \div 16) + 1] * 16
    + XorNibble[(a % 16) * 16 + (b % 16) + 1]

Xor16(a, b) == Xor8(a \div 256, b \div 256) * 256 + Xor8(a % 256, b % 256)

\* a ^ b
Xor32(a, b) == <<Xor16(a[1], b[1]), Xor16(a[2], b[2])>>

\* a >>> k for 0 < k < 16, p = 2^k, q = 2^(16-k)
Shr32(a, p, q) == <<a[1] \div p, (a[1] % p) * q + a[2] \div p>>

\* t | 1
Or1(a) == <<a[1], a[2] + 1 - (a[2] % 2)>>

\* t | 61: 61 = 111101b, so only bit 1 of the low six bits is kept from t
Or61(a) == <<a[1], (a[2] \div 64) * 64 + 61 + 2 * ((a[2] \div 2) % 2)>>

\* (a + b) mod 2^32
Add32(a, b) ==
  LET lo == a[2] + b[2]
  IN <<(a[1] + b[1] + lo \div 65536) % 65536, lo % 65536>>

\* The 32-bit product of two 16-bit values, as <<hi, lo>>.
MulFull(x, y) ==
  LET p0 == (x % 256) * y
      p1 == (x \div 256) * y
      mid == (p1 % 256) * 256 + p0
  IN <<p1 \div 256 + mid \div 65536, mid % 65536>>

\* Math.imul(a, b): the low 32 bits of a * b
Imul32(a, b) ==
  LET ll == MulFull(a[2], b[2])
  IN <<(ll[1] + MulFull(a[1], b[2])[2] + MulFull(a[2], b[1])[2]) % 65536, ll[2]>>

(***************************************************************************)
(* mulberry32 (app.js 5-12).  The closure's seed is a JavaScript number    *)
(* that grows by 0x6D2B79F5 per draw and stays below 2^53 for the tens of  *)
(* thousands of draws of one city; every use of it is through ^, >>> and   *)
(* Math.imul, which read it mod 2^32, so the state is kept mod 2^32.       *)
(***************************************************************************)

\* The state of mulberry32(seed) for a seed given as an integer below 2^31.
SeedWord(n) == <<n \div 65536, n % 65536>>

\* 0x6D2B79F5
Increment == <<27947, 31221>>

\* t = Math.imul(t ^ (t >>> 15), t | 1)
mulberry32Mix1(t) == Imul32(Xor32(t, Shr32(t, 32768, 2)), Or1(t))

\* t ^= t + Math.imul(t ^ (t >>> 7), t | 61)
mulberry32Mix2(t) == Xor32(t, Add32(t, Imul32(Xor32(t, Shr32(t, 128, 512)), Or61(t))))

\* (t ^ (t >>> 14)) >>> 0
mulberry32Mix3(t) == Xor32(t, Shr32(t, 16384, 4))

\* The state after the k-th of the next calls of the generator: each call
\* adds 0x6D2B79F5 to the state (line 7) and nothing else changes it.
rngAfter(rng, k) == Add32(rng, Imul32(SeedWord(k), Increment))

\* The 32-bit integer n that the k-th of the next calls returns as n / 2^32.
mulberry32(rng, k) == mulberry32Mix3(mulberry32Mix2(mulberry32Mix1(rngAfter(rng, k))))

(***************************************************************************)
(* Fixed-point values <<i, hi, lo>> = i + (hi*2^16 + lo) / 2^32            *)
(***************************************************************************)

\* randRange(rng, a, b) = a + (b - a) * rng() for integers a < b, b - a < 2^14,
\* rng() = n / 2^32.
randRange(n, a, b) ==
  LET k == b - a
      l == k * n[2]
      h == k * n[1] + l \div 65536
  IN <<a + h \div 65536, h % 65536, l % 65536>>

\* randInt(rng, a, b) = Math.floor(randRange(rng, a, b + 1))
randInt(n, a, b) == randRange(n, a, b + 1)[1]

FxInt(i) == <<i, 0, 0>>

FxLess(x, y) ==
  \/ x[1] < y[1]
  \/ x[1] = y[1] /\ x[2] < y[2]
  \/ x[1] = y[1] /\ x[2] = y[2] /\ x[3] < y[3]

FxLeq(x, y) == x = y \/ FxLess(x, y)

FxAdd(x, y) ==
  LET l == x[3] + y[3]
      h == x[2] + y[2] + l \div 65536
  IN <<x[1] + y[1] + h \div 65536, h % 65536, l % 65536>>

FxNeg(x) ==
  IF x[2] = 0 /\ x[3] = 0 THEN <<-x[1], 0, 0>>
  ELSE IF x[3] = 0 THEN <<-x[1] - 1, 65536 - x[2], 0>>
  ELSE <<-x[1] - 1, 65535 - x[2], 65536 - x[3]>>

FxSub(x, y) == FxAdd(x, FxNeg(y))

\* x / 2, exact when the lowest bit of x is clear
FxHalf(x) ==
  LET i == x[1] \div 2
      r == x[1] % 2
      h == r * 65536 + x[2]
  IN <<i, h \div 2, (h % 2) * 32768 + x[3] \div 2>>

(***************************************************************************)
(* Natural numbers of any size: little-endian sequences of base-2^15 limbs *)
(* with no leading zero limb (zero is <<>>).                               *)
(***************************************************************************)

Base == 2 ^ 15

RECURSIVE BNorm(_)
BNorm(a) ==
  IF Len(a) = 0 THEN a
  ELSE IF a[Len(a)] = 0 THEN BNorm(SubSeq(a, 1, Len(a) - 1))
  ELSE a

BLimb(a, i) == IF i <= Len(a) THEN a[i] ELSE 0

RECURSIVE BAddFrom(_, _, _, _)
BAddFrom(a, b, i, c) ==
  IF i > Len(a) /\ i > Len(b) THEN (IF c = 0 THEN <<>> ELSE <<c>>)
  ELSE LET s == BLimb(a, i) + BLimb(b, i) + c
       IN <<s % Base>> \o BAddFrom(a, b, i + 1, s \div Base)

BAdd(a, b) == BAddFrom(a, b, 1, 0)

\* a - b for a >= b
RECURSIVE BSubFrom(_, _, _, _)
BSubFrom(a, b, i, c) ==
  IF i > Len(a) THEN <<>>
  ELSE LET s == a[i] - BLimb(b, i) - c
       IN <<s % Base>> \o BSubFrom(a, b, i + 1, IF s < 0 THEN 1 ELSE 0)

BSub(a, b) == BNorm(BSubFrom(a, b, 1, 0))

\* a * k for 0 <= k < 2^15
RECURSIVE BMulSmallFrom(_, _, _, _)
BMulSmallFrom(a, k, i, c) ==
  IF i > Len(a) THEN (IF c = 0 THEN <<>> ELSE <<c>>)
  ELSE LET p == a[i] * k + c
       IN <<p % Base>> \o BMulSmallFrom(a, k, i + 1, p \div Base)

BMulSmall(a, k) == IF k = 0 THEN <<>> ELSE BMulSmallFrom(a, k, 1, 0)

RECURSIVE BMulFrom(_, _, _)
BMulFrom(a, b, i) ==
  IF i > Len(b) THEN <<>>
  ELSE BAdd(BMulSmall(a, b[i]), IF i = Len(b) THEN <<>> ELSE <<0>> \o BMulFrom(a, b, i + 1))

BMul(a, b) == BNorm(BMulFrom(a, b, 1))

\* <<a div d, a mod d>> for 0 < d < 2^15; the quotient's limbs from the top down
RECURSIVE BDivSmallFrom(_, _, _, _)
BDivSmallFrom(a, d, i, r) ==
  IF i = 0 THEN <<<<>>, r>>
  ELSE LET n == r * Base + a[i]
           rest == BDivSmallFrom(a, d, i - 1, n % d)
       IN <<Append(rest[1], n \div d), rest[2]>>

BNormQuotient(qr) == <<BNorm(qr[1]), qr[2]>>

BDivSmall(a, d) == BNormQuotient(BDivSmallFrom(a, d, Len(a), 0))

Zeros(n) == [i \in 1..n |-> 0]

\* a * 2^k
BShl(a, k) ==
  IF Len(a) = 0 THEN a
  ELSE Zeros(k \div 15) \o BMulSmall(a, 2 ^ (k % 15))

\* floor(a / 2^k)
BShr(a, k) ==
  IF k \div 15 >= Len(a) THEN <<>>
  ELSE BDivSmall(SubSeq(a, k \div 15 + 1, Len(a)), 2 ^ (k % 15))[1]

RECURSIVE BitLenSmall(_)
BitLenSmall(x) == IF x = 0 THEN 0 ELSE 1 + BitLenSmall(x \div 2)

BBitLen(a) == IF Len(a) = 0 THEN 0 ELSE 15 * (Len(a) - 1) + BitLenSmall(a[Len(a)])

\* -1, 0, 1 as a < b, a = b, a > b
RECURSIVE BCmpFrom(_, _, _)
BCmpFrom(a, b, i) ==
  IF i = 0 THEN 0
  ELSE IF a[i] < b[i] THEN -1
  ELSE IF a[i] > b[i] THEN 1
  ELSE BCmpFrom(a, b, i - 1)

BCmp(a, b) ==
  IF Len(a) < Len(b) THEN -1
  ELSE IF Len(a) > Len(b) THEN 1
  ELSE BCmpFrom(a, b, Len(a))

BOdd(a) == Len(a) > 0 /\ a[1] % 2 = 1

BFromInt(n) == BNorm(<<n % Base, (n \div Base) % Base, n \div (Base * Base)>>)

\* The number hi*2^16 + lo of a 32-bit word.
BFromWord(w) ==
  BNorm(<<w[2] % Base, w[2] \div Base + 2 * (w[1] % 16384), w[1] \div 16384>>)

(***************************************************************************)
(* IEEE 754 doubles [s, m, e] = s * m * 2^e: m = <<>>, e = 0, s = 1 for    *)
(* zero, otherwise 2^52 <= m < 2^53 and s is 1 or -1.  The values of       *)
(* updateTraffic stay between 2^-110 and 2^11, far from the subnormal and  *)
(* overflow ranges, which are not modelled.                                *)
(***************************************************************************)

Precision == 52 + 1

DZero == [s |-> 1, m |-> <<>>, e |-> 0]

\* q or q + 1 as the cut-off part rem of a number compares (c) with half a
\* unit of q: ties go to the even one.
RoundNearestEven(q, c) == IF c > 0 \/ (c = 0 /\ BOdd(q)) THEN BAdd(q, <<1>>) ELSE q

\* sgn * q * 2^e for q of at most Precision + 1 bits, the longer only as 2^53
RoundCarry(sgn, q, e) ==
  IF BBitLen(q) > Precision THEN [s |-> sgn, m |-> BShr(q, 1), e |-> e + 1]
  ELSE [s |-> sgn, m |-> q, e |-> e]

\* n of more than Precision bits, k = BBitLen(n) - Precision, q = floor(n / 2^k)
RoundCut(sgn, n, e, k, q) ==
  RoundCarry(sgn, RoundNearestEven(q, BCmp(BSub(n, BShl(q, k)), BShl(<<1>>, k - 1))), e + k)

RoundBits(sgn, n, e, len) ==
  IF len = 0 THEN DZero
  ELSE IF len <= Precision
    THEN [s |-> sgn, m |-> BShl(n, Precision - len), e |-> e - (Precision - len)]
  ELSE RoundCut(sgn, n, e, len - Precision, BShr(n, len - Precision))

\* The double nearest to sgn * n * 2^e, ties to even.
RoundToDouble(sgn, n, e) == RoundBits(sgn, n, e, BBitLen(n))

DFromInt(n) ==
  IF n < 0 THEN RoundToDouble(-1, BFromInt(-n), 0) ELSE RoundToDouble(1, BFromInt(n), 0)

\* The double of a non-negative fixed-point value (exact: at most 47 bits).
DFromFx(x) ==
  RoundToDouble(1, BAdd(BShl(BFromInt(x[1]), 32), BFromWord(<<x[2], x[3]>>)), -32)

\* x * y
DMul(x, y) == RoundToDouble(x.s * y.s, BMul(x.m, y.m), x.e + y.e)

\* qr = <<quotient, remainder>>: twice the quotient, plus one (a sticky bit)
\* when there is a remainder
BSticky(qr) == BAdd(BShl(qr[1], 1), IF qr[2] = 0 THEN <<>> ELSE <<1>>)

\* x / d for an integer 0 < d < 2^15: 16 more quotient bits than the mantissa
\* holds, the lowest one set when the division left a remainder.
DDivInt(x, d) == RoundToDouble(x.s, BSticky(BDivSmall(BShl(x.m, 15), d)), x.e - 16)

\* xs * a * 2^e + ys * b * 2^e for a, b > 0
DAddAligned(xs, a, ys, b, e) ==
  IF xs = ys THEN RoundToDouble(xs, BAdd(a, b), e)
  ELSE IF BCmp(a, b) = 0 THEN DZero
  ELSE IF BCmp(a, b) > 0 THEN RoundToDouble(xs, BSub(a, b), e)
  ELSE RoundToDouble(ys, BSub(b, a), e)

DAddAt(x, y, e) == DAddAligned(x.s, BShl(x.m, x.e - e), y.s, BShl(y.m, y.e - e), e)

\* x + y, either sign
DAdd(x, y) ==
  IF Len(x.m) = 0 THEN y
  ELSE IF Len(y.m) = 0 THEN x
  ELSE DAddAt(x, y, IF x.e < y.e THEN x.e ELSE y.e)

DNeg(x) == IF Len(x.m) = 0 THEN x ELSE [x EXCEPT !.s = -x.s]

DSub(x, y) == DAdd(x, DNeg(y))

DNegative(x) == Len(x.m) > 0 /\ x.s < 0

\* x < y
DLess(x, y) == DNegative(DSub(x, y))

DLeq(x, y) == x = y \/ DLess(x, y)

\* x % 1 for x >= 0: the fraction of x, exact
DMod1(x) ==
  IF x.e >= 0 THEN DZero
  ELSE RoundToDouble(1, BSub(x.m, BShl(BShr(x.m, -x.e), -x.e)), x.e)

\* Math.min(x, y)
DMin(x, y) == IF DLess(y, x) THEN y ELSE x

(***************************************************************************)
(* createCity (app.js 229-412)                                             *)
(*                                                                         *)
(* buildingDensity is the slider's value in tenths (the slider steps by    *)
(* 0.1 from 0.1 to 3.0; the program starts with 1.0).                      *)
(***************************************************************************)

blocksX == 12
blocksZ == 12
blockSize == 70
roadWidth == 36
lotPadding == 4
laneOffset == 6

\* rng() < 0.14 for rng() = n / 2^32: n < 601295422 = ceil(0.14 * 2^32)
parkChance == <<9175, 2622>>

citySizeX == blocksX * blockSize
citySizeZ == blocksZ * blockSize

\* Math.round(x * buildingDensity) for an integer x >= 0: round half up of
\* x * tenths / 10 (the double product is on the same side of .5 as the exact
\* one for every x <= 18 and every slider value).
roundTimesDensity(x, density) == (2 * x * density + 10) \div 20

buildingCountEstimate(density) == roundTimesDensity(12, density)

config(density) ==
  [blocksX |-> blocksX, blocksZ |-> blocksZ, blockSize |-> blockSize,
   roadWidth |-> roadWidth, lotPadding |-> lotPadding,
   buildingCountEstimate |-> buildingCountEstimate(density),
   densityFactor |-> density, laneOffset |-> laneOffset]

\* totalEst, the capacity of the buildings' InstancedMesh
totalEst(density) == blocksX * blocksZ * buildingCountEstimate(density)

\* PlaneGeometry(citySizeX + blockSize, roadWidth) and its counterpart along z
roadGeoH == [x |-> citySizeX + blockSize, z |-> roadWidth]
roadGeoV == [x |-> roadWidth, z |-> citySizeZ + blockSize]

\* The road meshes: 13 along x at z = zi*blockSize - citySizeZ/2, then 13 along z.
roads ==
  [i \in 1..(blocksZ + 1) |-> [geo |-> "roadGeoH", z |-> (i - 1) * blockSize - citySizeZ \div 2]]
  \o [i \in 1..(blocksX + 1) |-> [geo |-> "roadGeoV", x |-> (i - 1) * blockSize - citySizeX \div 2]]

blockMinPaddingOut(b, citySize) == b * blockSize - citySize \div 2 + roadWidth \div 2 - lotPadding

\* The lot rectangle of block b along one axis
blockMin(b, citySize) == b * blockSize - citySize \div 2 + roadWidth \div 2 + lotPadding
blockMax(b, citySize) == (b + 1) * blockSize - citySize \div 2 - roadWidth \div 2 - lotPadding

\* lanes: two per road line, at -laneOffset (dir 1) and +laneOffset (dir -1)
lanes ==
  [i \in 1..(2 * (blocksZ + 1)) |->
     LET z == ((i - 1) \div 2) * blockSize - citySizeZ \div 2
     IN IF i % 2 = 1 THEN [axis |-> "x", z |-> z - laneOffset, dir |-> 1]
        ELSE [axis |-> "x", z |-> z + laneOffset, dir |-> -1]]
  \o [i \in 1..(2 * (blocksX + 1)) |->
     LET x == ((i - 1) \div 2) * blockSize - citySizeX \div 2
     IN IF i % 2 = 1 THEN [axis |-> "z", x |-> x - laneOffset, dir |-> 1]
        ELSE [axis |-> "z", x |-> x + laneOffset, dir |-> -1]]

\* The generation state st carried through the loops of createCity: the
\* generator's state rng, the instance index idx, and what has been built.
\* blocks is the record of the pass: per block, whether it is a park, the lots
\* it was given and idx when its loop began.

\* One tree of a park (325-334): <<tx, tz>>, two draws.
tree(st, bx, bz) ==
  [st EXCEPT
     !.rng = rngAfter(@, 2),
     !.trees = Append(@,
       <<randRange(mulberry32(st.rng, 1), blockMin(bx, citySizeX) + 2, blockMax(bx, citySizeX) - 2),
         randRange(mulberry32(st.rng, 2), blockMin(bz, citySizeZ) + 2, blockMax(bz, citySizeZ) - 2)>>)]

RECURSIVE treeLoop(_, _, _, _)
treeLoop(st, bx, bz, t) ==
  IF st.idx < 0 \/ t = 0 THEN st
  ELSE treeLoop(tree(st, bx, bz), bx, bz, t - 1)

\* One building (342-352), seven draws.  Math.pow is not computed: the height
\* is kept as what determines it, the draw of randRange(0.2, 1.0) and the
\* value of randRange(20, 150); the yaw as the draw of randRange(-0.07, 0.07).
building(st, bx, bz) ==
  [st EXCEPT
     !.rng = rngAfter(@, 7),
     !.idx = @ + 1,
     !.buildings = Append(@,
       [x |-> randRange(mulberry32(st.rng, 1), blockMin(bx, citySizeX), blockMax(bx, citySizeX)),
        z |-> randRange(mulberry32(st.rng, 2), blockMin(bz, citySizeZ), blockMax(bz, citySizeZ)),
        footprint |-> randRange(mulberry32(st.rng, 3), 8, 16),
        depth |-> randRange(mulberry32(st.rng, 4), 8, 16),
        hPow |-> mulberry32(st.rng, 5),
        hScale |-> randRange(mulberry32(st.rng, 6), 20, 150),
        yaw |-> mulberry32(st.rng, 7)])]

lotsBreakLate(idx, cap) == idx > cap

\* if (idx >= totalEst) break
lotsBreak(idx, cap) == idx >= cap

\* for (let i = 0; i < lots; i++) { if (idx >= totalEst) break; ... }
RECURSIVE lotsLoop(_, _, _, _, _)
lotsLoop(st, bx, bz, i, lots) ==
  IF i >= lots \/ lotsBreak(st.idx, st.totalEst) THEN st
  ELSE lotsLoop(building(st, bx, bz), bx, bz, i + 1, lots)

\* rng() < config.parkChance
isPark(n) == FxLess(<<0>> \o n, <<0>> \o parkChance)

\* Math.max(2, m)
max2(m) == IF m > 2 THEN m ELSE 2

\* Lines 316-335, after the two draws of isPark and treeCount
parkBlock(st, bx, bz, treeCount) ==
  [treeLoop([st EXCEPT !.rng = rngAfter(@, 2)], bx, bz, treeCount) EXCEPT
     !.parks = Append(@, <<bx, bz>>),
     !.blocks = Append(@, [isPark |-> TRUE, lots |-> 0, idx |-> st.idx])]

\* Lines 339-353, after the two draws of isPark and lots
lotsBlock(st, bx, bz, lots) ==
  [lotsLoop([st EXCEPT !.rng = rngAfter(@, 2)], bx, bz, 0, lots) EXCEPT
     !.blocks = Append(@, [isPark |-> FALSE, lots |-> lots, idx |-> st.idx])]

\* The body of the block loop (308-353)
block(st, bx, bz) ==
  IF isPark(mulberry32(st.rng, 1))
    THEN parkBlock(st, bx, bz, randInt(mulberry32(st.rng, 2), 6, 14))
    ELSE lotsBlock(st, bx, bz,
                   max2(roundTimesDensity(randInt(mulberry32(st.rng, 2), 8, 18), st.density)))

RECURSIVE blockLoopZ(_, _, _)
blockLoopZ(st, bx, bz) ==
  IF st.idx < 0 \/ bz >= blocksZ THEN st
  ELSE blockLoopZ(block(st, bx, bz), bx, bz + 1)

RECURSIVE blockLoopX(_, _)
blockLoopX(st, bx) ==
  IF st.idx < 0 \/ bx >= blocksX THEN st
  ELSE blockLoopX(blockLoopZ(st, bx, 0), bx + 1)

\* Math.min(160, Math.floor((blocksX + blocksZ) * 6))
carCount == IF (blocksX + blocksZ) * 6 < 160 THEN (blocksX + blocksZ) * 6 ELSE 160

\* Lines 393-397 for the lane drawn at 392.  color is the hue of
\* setHSL(hue, 0.6, 0.5).
carOnLane(lane, rng) ==
  [lane |-> lane,
   color |-> randRange(mulberry32(rng, 2), 0, 1),
   speed |-> DFromFx(randRange(mulberry32(rng, 3), 12, 26)),
   length |-> IF lane.axis = "x" THEN citySizeX + blockSize ELSE citySizeZ + blockSize,
   t |-> DFromFx(randRange(mulberry32(rng, 4), 0, 1))]

\* One car (392-397), four draws from the state rng
car(rng) == carOnLane(lanes[randInt(mulberry32(rng, 1), 0, Len(lanes) - 1) + 1], rng)

\* for (let i = 0; i < carCount; i++): car i draws after the 4 * i draws of
\* the cars before it.
cars(rng) == [i \in 1..carCount |-> car(rngAfter(rng, 4 * (i - 1)))]

\* makeFacadeTexture (177-205): the canvas is a function of cols, rows, base,
\* isNight and of what Math.random returns while it is drawn (random); it is
\* handed the generator but never draws from it.
makeFacadeTexture(cols, rows, base, night, random) ==
  [cols |-> cols, rows |-> rows, base |-> base, night |-> night, random |-> random]

createCityBeginUnseeded(seed, night, random) ==
  [rng |-> rngAfter(SeedWord(random), 3),
   facadeTex |-> makeFacadeTexture(randInt(mulberry32(SeedWord(random), 1), 6, 10),
                                   randInt(mulberry32(SeedWord(random), 2), 12, 20),
                                   randInt(mulberry32(SeedWord(random), 3), 0, 3),
                                   night, random)]

\* Lines 230-288: the generator is seeded with the seed and the three facade
\* draws are made; the texture is drawn with them.
createCityBegin(seed, night, random) ==
  [rng |-> rngAfter(SeedWord(seed), 3),
   facadeTex |-> makeFacadeTexture(randInt(mulberry32(SeedWord(seed), 1), 6, 10),
                                   randInt(mulberry32(SeedWord(seed), 2), 12, 20),
                                   randInt(mulberry32(SeedWord(seed), 3), 0, 3),
                                   night, random)]

\* What the loops leave in the city: the instances, the parks and their
\* trees, and the cars, drawn last.
loopsResult(st) ==
  [buildings |-> st.buildings, blocks |-> st.blocks, parks |-> st.parks,
   trees |-> st.trees, cars |-> cars(st.rng)]

\* Lines 303-399: the block loops and the car loop, which read the generator
\* and the config and nothing else.
createCityLoops(rng, density) ==
  loopsResult(blockLoopX([rng |-> rng, idx |-> 0, density |-> density,
                          totalEst |-> totalEst(density), buildings |-> <<>>,
                          trees |-> <<>>, parks |-> <<>>, blocks |-> <<>>], 0))

(***************************************************************************)
(* Inputs and bounds                                                       *)
(***************************************************************************)

\* Values of Math.floor(Math.random() * 1e9): the seed of a seedless
\* regenerate, and the stand-in for what Math.random returns to the textures.
Randoms == {0, 3}

\* Values the density slider is moved to, in tenths
SliderValues == {2, 3}

\* performance.now() differences between two frames, in milliseconds
DeltaMs == {16, 100}

\* Regenerations after the boot, and frames after the boot's first one
MaxRegens == 1
MaxFrames == 2

\* createCityLoops for the generator states of the seeds in Randoms, computed
\* once: createCityLoops is a function of its two arguments.
Generated ==
  {[rng |-> rngAfter(SeedWord(s), 3), density |-> d,
    out |-> createCityLoops(rngAfter(SeedWord(s), 3), d)] :
      s \in Randoms, d \in SliderValues \cup {10}}

generatedOr(gs, rng, density) ==
  IF gs = {} THEN createCityLoops(rng, density) ELSE (CHOOSE g \in gs : TRUE).out

generatedLoops(rng, density) ==
  generatedOr({g \in Generated : g.rng = rng /\ g.density = density}, rng, density)

\* The city createCity returns, begin being what lines 230-288 left.
\* emissiveIntensity is in hundredths; carsMeshes holds, per car, the matrix
\* last given to the body and roof instances (none yet).
createCityFrom(seed, density, night, begin) ==
  [seed |-> seed,
   config |-> config(density),
   roads |-> roads,
   carsMeshes |-> [i \in 1..carCount |-> <<>>],
   facadeTex |-> begin.facadeTex,
   emissiveIntensity |-> IF night THEN 70 ELSE 12,
   capacity |-> totalEst(density),
   lanes |-> lanes]
  @@ generatedLoops(begin.rng, density)

\* createCity(seed) under the globals buildingDensity and isNight; random
\* stands for what Math.random returns during the call.
createCity(seed, density, night, random) ==
  createCityFrom(seed, density, night, createCityBegin(seed, night, random))

(***************************************************************************)
(* disposeCity (414-427)                                                   *)
(*                                                                         *)
(* A resource (geometry, material or texture) is <<name, k>>, k telling    *)
(* apart the resources made once per block.                                *)
(***************************************************************************)

\* The meshes c.group.traverse visits, in its order, each as
\* <<geometry, material>>; the groups themselves have neither.
groupMeshes(c) ==
  [i \in 1..Len(c.roads) |-> <<<<c.roads[i].geo, 0>>, <<"roadMat", 0>>>>]
  \o [i \in 1..(blocksX * blocksZ) |-> <<<<"sidewalkGeo", i>>, <<"sidewalkMat", 0>>>>]
  \o [i \in 1..Len(c.parks) |-> <<<<"parkGeo", i>>, <<"parkMat", i>>>>]
  \o << <<<<"buildingGeo", 0>>, <<"buildingMat", 0>>>> >>
  \o [i \in 1..(2 * Len(c.trees)) |->
        IF i % 2 = 1 THEN <<<<"trunkGeo", 0>>, <<"trunkMat", 0>>>>
        ELSE <<<<"leafGeo", 0>>, <<"leafMat", 0>>>>]
  \o << <<<<"bodyGeo", 0>>, <<"bodyMat", 0>>>>,
        <<<<"roofGeo", 0>>, <<"glassMat", 0>>>>,
        <<<<"wheelGeo", 0>>, <<"wheelMat", 0>>>> >>

\* obj.geometry?.dispose?.() and then the material's, for each mesh of ms
meshCalls(ms) == [k \in 1..(2 * Len(ms)) |-> ms[(k + 1) \div 2][2 - (k % 2)]]

\* c.materials in the order of Object.values, each as <<map, emissiveMap>>
\* (a sequence of length at most one each)
materials(c) ==
  << << <<<<"facadeTex", 0>>>>, <<<<"facadeTex", 0>>>> >>,
     << <<<<"roadTex", 0>>>>, <<>> >>,
     << <<>>, <<>> >>,
     << <<>>, <<>> >>,
     << <<>>, <<>> >>,
     << <<>>, <<>> >> >>

\* m.map?.dispose?.() and m.emissiveMap?.dispose?.() for each material
RECURSIVE materialCalls(_, _)
materialCalls(ms, i) ==
  IF i > Len(ms) THEN <<>>
  ELSE ms[i][1] \o ms[i][2] \o materialCalls(ms, i + 1)

\* The resources dispose() is called on by disposeCity(c), in call order
disposeCalls(c) == meshCalls(groupMeshes(c)) \o materialCalls(materials(c), 1)

disposeCityLeaveGroup(w, c) ==
  IF c = <<>> THEN w
  ELSE [w EXCEPT !.disposal = <<[id |-> c[1].id, calls |-> disposeCalls(c[1])]>>,
                 !.disposed = @ \cup {c[1].id}]

\* w is the program's state as a record of the variables.
disposeCity(w, c) ==
  IF c = <<>> THEN w
  ELSE [w EXCEPT !.scene = @ \ {c[1].id},
                 !.disposal = <<[id |-> c[1].id, calls |-> disposeCalls(c[1])]>>,
                 !.disposed = @ \cup {c[1].id}]

(***************************************************************************)
(* regenerate (429-435)                                                    *)
(***************************************************************************)

seedOrRandomFalsy(seed, randomSeed) ==
  IF seed = <<>> \/ seed[1] = 0 THEN randomSeed ELSE seed[1]

\* seed ?? Math.floor(Math.random() * 1e9)
seedOrRandom(seed, randomSeed) == IF seed = <<>> THEN randomSeed ELSE seed[1]

\* Lines 432-434 for the city c that createCity(s) returned: city = c, the
\* group is added to the scene and the HUD is written.  What history keeps of
\* the call is not program state.
regenerateWith(w, seed, random, c) ==
  [w EXCEPT !.city = <<c>>,
            !.history = Append(@, [seed |-> c.seed, argument |-> seed,
                                   density |-> w.buildingDensity, night |-> w.isNight,
                                   random |-> random, sceneBefore |-> w.scene,
                                   disposedBefore |-> w.disposed, city |-> c]),
            !.scene = @ \cup {c.id},
            !.hud = <<[cars |-> Len(c.cars),
                       blocks |-> c.config.blocksX * c.config.blocksZ,
                       seed |-> c.seed]>>]

\* Line 432, after disposeCity: id names the new city's group object.
regenerateCreate(w, seed, s, random) ==
  regenerateWith(w, seed, random,
                 [id |-> Len(w.history) + 1]
                 @@ createCity(s, w.buildingDensity, w.isNight, random))

\* regenerate(seed), Math.random returning randomSeed to line 430 and random
\* to the textures
regenerate(w, seed, randomSeed, random) ==
  regenerateCreate(disposeCity(w, w.city), seed, seedOrRandom(seed, randomSeed), random)

\* setDayNight without lines 74-76: the material keeps its intensity
setDayNightStale(w, night) == [w EXCEPT !.isNight = night]

\* setDayNight (61-77); the lights and the fog are not modelled
setDayNight(w, night) ==
  [w EXCEPT !.isNight = night,
            !.city = IF @ = <<>> THEN @
                     ELSE <<[@[1] EXCEPT !.emissiveIntensity = IF night THEN 70 ELSE 12]>>]

(***************************************************************************)
(* animate and updateTraffic (439-503)                                     *)
(***************************************************************************)

carTNoWrap(cr, dt) == DAdd(cr.t, DDivInt(DMul(cr.speed, dt), cr.length))

carTCitySize(cr, dt) == DMod1(DAdd(cr.t, DDivInt(DMul(cr.speed, dt), cr.length - blockSize)))

\* Line 466: (car.t + (car.speed * dt) / car.length) % 1
carT(cr, dt) == DMod1(DAdd(cr.t, DDivInt(DMul(cr.speed, dt), cr.length)))

\* Line 467: car.t * car.length - car.length / 2
carPos(cr) == DSub(DMul(cr.t, DFromInt(cr.length)), DDivInt(DFromInt(cr.length), 2))

carMatrixSwapped(lane, pos) ==
  IF lane.axis = "x"
    THEN <<[x |-> DFromInt(lane.z), z |-> IF lane.dir > 0 THEN pos ELSE DNeg(pos),
            rotationY |-> IF lane.dir > 0 THEN "-PI/2" ELSE "PI/2"]>>
    ELSE <<[x |-> IF lane.dir > 0 THEN pos ELSE DNeg(pos), z |-> DFromInt(lane.x),
            rotationY |-> IF lane.dir > 0 THEN "0" ELSE "PI"]>>

\* Lines 468-481: the position and heading given to tmp, whose matrix goes to
\* the body and roof instances.  The four wheel instances, placed around the
\* same position, are not modelled.
carMatrix(lane, pos) ==
  IF lane.axis = "x"
    THEN <<[x |-> IF lane.dir > 0 THEN pos ELSE DNeg(pos), z |-> DFromInt(lane.z),
            rotationY |-> IF lane.dir > 0 THEN "-PI/2" ELSE "PI/2"]>>
    ELSE <<[x |-> DFromInt(lane.x), z |-> IF lane.dir > 0 THEN pos ELSE DNeg(pos),
            rotationY |-> IF lane.dir > 0 THEN "0" ELSE "PI"]>>

\* The loop's body for one car: the car with its new t, and its matrix
updateCarAt(cr) == [car |-> cr, matrix |-> carMatrix(cr.lane, carPos(cr))]

updateCar(cr, dt) == updateCarAt([cr EXCEPT !.t = carT(cr, dt)])

\* The city with the cars and matrices of the updates u
updateCity(c, u) ==
  [c EXCEPT !.cars = [i \in 1..Len(u) |-> u[i].car],
            !.carsMeshes = [i \in 1..Len(u) |-> u[i].matrix]]

updateTraffic(w, dt) ==
  IF w.city = <<>> THEN w
  ELSE [w EXCEPT !.city =
          <<updateCity(@[1], [i \in 1..Len(@[1].cars) |-> updateCar(@[1].cars[i], dt)])>>]

\* 0.05
maxDt == DDivInt(DFromInt(5), 100)

\* One animation frame, clock.getDelta() returning delta: the movement of the
\* camera, the rain and the sun are not modelled, and the render changes
\* nothing.
animate(w, delta) == [updateTraffic(w, DMin(maxDt, delta)) EXCEPT !.lastDt = <<DMin(maxDt, delta)>>]

(***************************************************************************)
(* The state machine                                                       *)
(***************************************************************************)

World ==
  [city |-> city, buildingDensity |-> buildingDensity, isNight |-> isNight,
   scene |-> scene, hud |-> hud, disposal |-> disposal, disposed |-> disposed,
   history |-> history, lastDt |-> lastDt]

Becomes(w) ==
  /\ city' = w.city
  /\ buildingDensity' = w.buildingDensity
  /\ isNight' = w.isNight
  /\ scene' = w.scene
  /\ hud' = w.hud
  /\ disposal' = w.disposal
  /\ disposed' = w.disposed
  /\ history' = w.history
  /\ lastDt' = w.lastDt

InitProgram ==
  /\ booted = FALSE
  /\ city = <<>>
  /\ buildingDensity = 10
  /\ isNight = FALSE
  /\ scene = {}
  /\ hud = <<>>
  /\ disposal = <<>>
  /\ disposed = {}
  /\ history = <<>>
  /\ lastDt = <<>>
  /\ frames = 0

Init == InitProgram /\ lap = <<>>

\* Lines 524-526: regenerate(); setWeather('clear'); animate().  The first
\* getDelta() of a THREE.Clock starts the clock and returns 0.
Boot ==
  /\ ~booted
  /\ booted' = TRUE
  /\ \E randomSeed \in Randoms, random \in Randoms :
       Becomes(animate(regenerate(World, <<>>, randomSeed, random), DZero))
  /\ UNCHANGED <<frames, lap>>

\* keydown with KeyR (163): regenerate()
KeyR ==
  /\ booted
  /\ Len(history) <= MaxRegens
  /\ \E randomSeed \in Randoms, random \in Randoms :
       Becomes(regenerate(World, <<>>, randomSeed, random))
  /\ UNCHANGED <<booted, frames, lap>>

\* The slider's change event (516-519): regenerate(city?.seed)
DensityChange ==
  /\ booted
  /\ Len(history) <= MaxRegens
  /\ \E value \in SliderValues, randomSeed \in Randoms, random \in Randoms :
       LET w == [World EXCEPT !.buildingDensity = value]
           seed == IF w.city = <<>> THEN <<>> ELSE <<w.city[1].seed>>
       IN Becomes(regenerate(w, seed, randomSeed, random))
  /\ UNCHANGED <<booted, frames, lap>>

\* keydown with KeyN (164) and the button's click (520): setDayNight(!isNight)
ToggleDayNight ==
  /\ booted
  /\ Becomes(setDayNight(World, ~isNight))
  /\ UNCHANGED <<booted, frames, lap>>

\* The callback of requestAnimationFrame (439-458)
Frame ==
  /\ booted
  /\ frames < MaxFrames
  /\ frames' = frames + 1
  /\ \E ms \in DeltaMs : Becomes(animate(World, DDivInt(DFromInt(ms), 1000)))
  /\ UNCHANGED <<booted, lap>>

Next == Boot \/ KeyR \/ DensityChange \/ ToggleDayNight \/ Frame

Spec == Init /\ [][Next]_vars

(***************************************************************************)
(* Generation: capacity, determinism, placement                            *)
(***************************************************************************)

\* The city the last createCity call returned, as it was returned
created == history[Len(history)].city

\* idx when the loop of the k-th block (in loop order) ended
idxAfter(c, k) == IF k < Len(c.blocks) THEN c.blocks[k + 1].idx ELSE Len(c.buildings)

\* The buildings placed while the k-th block was processed
placedIn(c, k) == idxAfter(c, k) - c.blocks[k].idx

\* The instances the mesh could still take when the k-th block began
roomAt(c, k) == IF c.capacity > c.blocks[k].idx THEN c.capacity - c.blocks[k].idx ELSE 0

RECURSIVE lotsFrom(_, _, _)
lotsFrom(c, k, n) == IF n = 0 THEN 0 ELSE c.blocks[k].lots + lotsFrom(c, k + 1, n - 1)

RECURSIVE lotsOfRows(_, _)
lotsOfRows(c, bx) ==
  IF bx >= blocksX THEN 0
  ELSE lotsFrom(c, bx * blocksZ + 1, blocksZ) + lotsOfRows(c, bx + 1)

\* The lots drawn for the non-park blocks, summed
lotsDrawn(c) == lotsOfRows(c, 0)

capacityKept(c) ==
  /\ c.capacity = c.config.blocksX * c.config.blocksZ * ((12 * c.config.densityFactor + 5) \div 10)
  /\ Len(c.blocks) = blocksX * blocksZ
  /\ Len(c.buildings) <= c.capacity
  /\ lotsDrawn(c) >= c.capacity => Len(c.buildings) = c.capacity
  /\ \A k \in 1..Len(c.blocks) :
        placedIn(c, k) = IF c.blocks[k].lots < roomAt(c, k) THEN c.blocks[k].lots ELSE roomAt(c, k)

\* C1: a generation pass never places more than capacity = blocksX * blocksZ *
\* round(12 * density) instances; when the lots drawn sum to at least the
\* capacity it ends with exactly capacity instances; and every block gets
\* its lots only as far as the capacity allows, so none once it is reached.
C1_CapacityTruncation == history # <<>> => capacityKept(created)

truncated(c) ==
  /\ lotsDrawn(c) > c.capacity
  /\ Len(c.buildings) = c.capacity
  /\ \E k \in 1..Len(c.blocks) : 0 < placedIn(c, k) /\ placedIn(c, k) < c.blocks[k].lots
  /\ \E k \in 1..Len(c.blocks) : c.blocks[k].lots > 0 /\ placedIn(c, k) = 0

\* A pass that reached the capacity in the middle of a block and skipped the
\* lots of later blocks
C1_Witness == history # <<>> /\ truncated(created)

sameGeneration(a, b) ==
  /\ a.roads = b.roads
  /\ a.blocks = b.blocks
  /\ a.parks = b.parks
  /\ a.buildings = b.buildings
  /\ a.trees = b.trees
  /\ a.lanes = b.lanes
  /\ a.cars = b.cars

\* C2: two createCity runs with the same seed and the same buildingDensity
\* return the same roads, the same park/building classification and lots of
\* every block, the same building instances, trees and lanes, and the same
\* initial cars (lane, color, speed, t), whatever isNight and Math.random were
\* during each run.
C2_Determinism ==
  \A i, j \in 1..Len(history) :
    (history[i].seed = history[j].seed /\ history[i].density = history[j].density)
      => sameGeneration(history[i].city, history[j].city)

\* Two runs with one seed and one density whose facade textures, drawn with
\* Math.random, differ
C2_Witness ==
  \E i, j \in 1..Len(history) :
    /\ i < j
    /\ history[i].seed = history[j].seed
    /\ history[i].density = history[j].density
    /\ history[i].city.facadeTex # history[j].city.facadeTex
    /\ Len(history[j].city.buildings) > 0

\* The rectangle a road mesh covers: its geometry, centred on the grid line
roadRect(r) ==
  IF r.geo = "roadGeoH"
    THEN [x0 |-> -(roadGeoH.x \div 2), x1 |-> roadGeoH.x \div 2,
          z0 |-> r.z - roadGeoH.z \div 2, z1 |-> r.z + roadGeoH.z \div 2]
    ELSE [x0 |-> r.x - roadGeoV.x \div 2, x1 |-> r.x + roadGeoV.x \div 2,
          z0 |-> -(roadGeoV.z \div 2), z1 |-> roadGeoV.z \div 2]

\* The open interval (centre - size / 2, centre + size / 2) meets (lo, hi)
spanMeets(centre, size, lo, hi) ==
  /\ FxLess(FxSub(centre, FxHalf(size)), FxInt(hi))
  /\ FxLess(FxInt(lo), FxAdd(centre, FxHalf(size)))

\* The footprint of building b overlaps the rectangle q
footprintOverlaps(b, q) ==
  /\ spanMeets(b.x, b.footprint, q.x0, q.x1)
  /\ spanMeets(b.z, b.depth, q.z0, q.z1)

noRoadOverlap(c) ==
  \A i \in 1..Len(c.buildings), r \in 1..Len(c.roads) :
    ~footprintOverlaps(c.buildings[i], roadRect(c.roads[r]))

\* C3: the footprint rectangle of every building (its sampled width and
\* depth, centred on its sampled position) is disjoint from every road strip.
C3_NoRoadOverlap == history # <<>> => noRoadOverlap(created)

\* The block footprint along one axis, shrunk on each side by
\* roadWidth / 2 + lotPadding
lotLow(b, citySize) == (b * blockSize - citySize \div 2) + (roadWidth \div 2 + lotPadding)
lotHigh(b, citySize) == ((b + 1) * blockSize - citySize \div 2) - (roadWidth \div 2 + lotPadding)

inLot(b, bx, bz) ==
  /\ FxLeq(FxInt(lotLow(bx, citySizeX)), b.x) /\ FxLeq(b.x, FxInt(lotHigh(bx, citySizeX)))
  /\ FxLeq(FxInt(lotLow(bz, citySizeZ)), b.z) /\ FxLeq(b.z, FxInt(lotHigh(bz, citySizeZ)))

\* The k-th block of the loops is (bx, bz) = ((k - 1) div blocksZ, (k - 1) mod blocksZ)
blockKept(c, k, bx, bz) ==
  /\ lotLow(bx, citySizeX) < lotHigh(bx, citySizeX)
  /\ lotLow(bz, citySizeZ) < lotHigh(bz, citySizeZ)
  /\ \A i \in (c.blocks[k].idx + 1)..idxAfter(c, k) : inLot(c.buildings[i], bx, bz)

\* C4: every building placed while block (bx, bz) is processed has its
\* position inside that block's lot rectangle, and the rectangle has
\* min < max on both axes.
C4_InsideLot ==
  history # <<>> =>
    \A k \in 1..Len(created.blocks) :
      blockKept(created, k, (k - 1) \div blocksZ, (k - 1) % blocksZ)

\* A pass that placed buildings in the last block of the grid
C4_Witness ==
  /\ history # <<>>
  /\ Len(created.blocks) = blocksX * blocksZ
  /\ placedIn(created, blocksX * blocksZ) > 0

(***************************************************************************)
(* The lifecycle: disposal, regeneration, the HUD                          *)
(***************************************************************************)

\* The geometries, materials and textures reachable from c's group and
\* c.materials
owned(c) ==
  {groupMeshes(c)[i][j] : i \in 1..Len(groupMeshes(c)), j \in 1..2}
    \cup UNION {{materials(c)[i][j][k] : k \in 1..Len(materials(c)[i][j])} :
                   i \in 1..Len(materials(c)), j \in 1..2}

timesReleased(calls, r) == Cardinality({k \in 1..Len(calls) : calls[k] = r})

\* C5: disposeCity(c) releases every resource c owns exactly once, and a call
\* with no city changes nothing.
C5_ReleasedOnce ==
  /\ disposeCity(World, <<>>) = World
  /\ disposal # <<>> =>
       \A r \in owned(history[disposal[1].id].city) : timesReleased(disposal[1].calls, r) = 1

fullyGenerated(c) ==
  /\ Len(c.roads) = (blocksZ + 1) + (blocksX + 1)
  /\ Len(c.blocks) = blocksX * blocksZ
  /\ Len(c.buildings) <= c.capacity
  /\ Len(c.lanes) = 2 * (blocksZ + 1) + 2 * (blocksX + 1)
  /\ Len(c.cars) = carCount
  /\ Len(c.carsMeshes) = Len(c.cars)

\* When createCity ran for the h-th time the scene held no city group and
\* every earlier city had been through disposeCity
builtAfterDisposal(h) ==
  /\ history[h].sceneBefore = {}
  /\ \A g \in 1..(h - 1) : history[g].city.id \in history[h].disposedBefore

\* C6: whenever a frame can run (from the boot on), the scene holds exactly
\* one city group, it is the current city's, the current city is fully
\* generated and not disposed, and every earlier city was disposed before its
\* successor was built.
C6_AtomicRegeneration ==
  booted =>
    /\ city # <<>>
    /\ scene = {city[1].id}
    /\ city[1].id = created.id
    /\ city[1].id \notin disposed
    /\ fullyGenerated(city[1])
    /\ \A h \in 1..Len(history) : builtAfterDisposal(h)

\* A frame has run on a city that replaced a disposed one
C6_Witness ==
  /\ booted
  /\ Len(history) > 1
  /\ frames > 0
  /\ city[1].carsMeshes[1] # <<>>
  /\ history[1].city.id \in disposed

\* C10: a regenerate called with a seed (a density change) keeps the seed of
\* the city before it, so the seed changes only in a seedless regenerate; the
\* current city's densityFactor is the slider's latest value; and the HUD
\* shows the current city's car count, block count and seed.
C10_DensityKeepsSeed ==
  /\ \A h \in 2..Len(history) :
        history[h].argument # <<>> => history[h].seed = history[h - 1].seed
  /\ city # <<>> =>
        /\ city[1].config.densityFactor = buildingDensity
        /\ city[1].seed = created.seed
        /\ hud = <<[cars |-> Len(city[1].cars),
                    blocks |-> blocksX * blocksZ,
                    seed |-> city[1].seed]>>

\* A density change after a boot with seed 0 and different Math.random values
C10_Witness ==
  /\ Len(history) > 1
  /\ history[2].argument = <<0>>
  /\ history[2].density # history[1].density
  /\ history[2].random # history[1].seed
  /\ city[1].config.densityFactor = history[2].density

(***************************************************************************)
(* Day and night                                                           *)
(***************************************************************************)

\* C11: after any sequence of day/night toggles and regenerations, the
\* current city's building material has emissive intensity 0.7 exactly when
\* isNight is true and 0.12 exactly when it is false (intensities are in
\* hundredths).
C11_EmissiveFollowsNight ==
  city # <<>> =>
     /\ city[1].emissiveIntensity = 70 <=> isNight
     /\ city[1].emissiveIntensity = 12 <=> ~isNight

\* A city built at night by a regeneration after the boot, then toggled to day
C11_Witness ==
  /\ Len(history) > 1
  /\ history[Len(history)].night
  /\ ~isNight
  /\ city[1].emissiveIntensity = 12

(***************************************************************************)
(* Traffic                                                                 *)
(***************************************************************************)

\* cr is a car of the current city, c0 the same car as createCity made it, m
\* the matrix last given to its instances
laneKept(c, cr, c0, m) ==
  /\ \E l \in 1..Len(c.lanes) : c.lanes[l] = cr.lane
  /\ cr.lane = c0.lane
  /\ cr.speed = c0.speed
  /\ cr.length = c0.length
  /\ cr.color = c0.color
  /\ m # <<>> =>
       IF cr.lane.axis = "x" THEN m[1].z = DFromInt(cr.lane.z)
       ELSE m[1].x = DFromInt(cr.lane.x)

\* C7: after any number of ticks within one city every vehicle's position has
\* the fixed coordinate of its lane on the lane's fixed axis, and its lane,
\* speed, length and color are those it was created with.
C7_LaneConfinement ==
  city # <<>> =>
    \A i \in 1..Len(city[1].cars) :
      laneKept(city[1], city[1].cars[i], created.cars[i], city[1].carsMeshes[i])

moved(c, c0, axis) ==
  \E i \in 1..Len(c.cars) :
    /\ c.cars[i].lane.axis = axis
    /\ c.carsMeshes[i] # <<>>
    /\ c.cars[i].t # c0.cars[i].t

\* Two frames have moved vehicles of both kinds of lane
C7_Witness ==
  /\ city # <<>>
  /\ frames > 1
  /\ moved(city[1], created, "x")
  /\ moved(city[1], created, "z")

inUnit(t) == ~DNegative(t) /\ DLess(t, DFromInt(1))

withinHalf(p, length) ==
  /\ DLeq(DNeg(DDivInt(DFromInt(length), 2)), p)
  /\ DLeq(p, DDivInt(DFromInt(length), 2))

travelKept(cr, m) ==
  /\ inUnit(cr.t)
  /\ m # <<>> => withinHalf(IF cr.lane.axis = "x" THEN m[1].x ELSE m[1].z, cr.length)

\* C8: dt is clamped to at most 0.05, every vehicle's t stays in [0, 1), and
\* its travel-axis position stays within half its cycle length of the centre.
C8_ProgressInUnit ==
  /\ lastDt # <<>> => ~DNegative(lastDt[1]) /\ DLeq(lastDt[1], maxDt)
  /\ city # <<>> =>
       \A i \in 1..Len(city[1].cars) : travelKept(city[1].cars[i], city[1].carsMeshes[i])

\* A frame whose delta was clamped took a vehicle past the end of its cycle
C8_Witness ==
  /\ city # <<>>
  /\ lastDt = <<maxDt>>
  /\ \E i \in 1..Len(city[1].cars) :
       /\ city[1].carsMeshes[i] # <<>>
       /\ DLess(city[1].cars[i].t, created.cars[i].t)

(***************************************************************************)
(* One vehicle driven round its cycle (line 466 applied tick after tick)   *)
(*                                                                         *)
(* SpecWrap takes a vehicle as createCity makes it at the boot and a frame *)
(* delta for which car.speed * dt, as line 466 computes it, is exactly 1   *)
(* or exactly 1/2, and ticks it with that delta until the distances sum to *)
(* its cycle length.  Sums and differences are kept exactly, as x = m * 2^e*)
(* with a mantissa m of any size.                                          *)
(***************************************************************************)

\* The first LapCars cars of a city are driven
LapCars == 2

\* Mantissas of the frame deltas, which are m * 2^-57 and m * 2^-58 seconds
\* (between 20 and 47 ms)
LapMantissas ==
  { <<3918, 27600, 2701, 219>>,
    <<2947, 18357, 22476, 167>>,
    <<14018, 12568, 3063, 153>>,
    <<2370, 4514, 12651, 186>>,
    <<24947, 31047, 25913, 184>>,
    <<2567, 15904, 16096, 240>> }

\* Values of clock.getDelta()
LapDeltas == {[s |-> 1, m |-> mm, e |-> ee] : mm \in LapMantissas, ee \in {-58, -57}}

XInt(n) == [m |-> BFromInt(n), e |-> 0]

XAddAt(x, y, e) == [m |-> BAdd(BShl(x.m, x.e - e), BShl(y.m, y.e - e)), e |-> e]

\* x + y
XAdd(x, y) == XAddAt(x, y, IF x.e < y.e THEN x.e ELSE y.e)

XCmpAt(x, y, e) == BCmp(BShl(x.m, x.e - e), BShl(y.m, y.e - e))

\* -1, 0, 1 as x < y, x = y, x > y
XCmp(x, y) == XCmpAt(x, y, IF x.e < y.e THEN x.e ELSE y.e)

XSubAt(x, y, e) == [m |-> BSub(BShl(x.m, x.e - e), BShl(y.m, y.e - e)), e |-> e]

\* |x - y|
XAbsDiff(x, y) ==
  IF XCmp(x, y) >= 0 THEN XSubAt(x, y, IF x.e < y.e THEN x.e ELSE y.e)
  ELSE XSubAt(y, x, IF x.e < y.e THEN x.e ELSE y.e)

\* The cars of the city the boot makes for a seed
bootCars(seed) == createCity(seed, 10, FALSE, 0).cars

\* dt of a frame whose clock delta is delta (line 441)
frameDt(delta) == DMin(maxDt, delta)

lapStart(cr, delta) ==
  [car |-> cr, t0 |-> cr.t, dt |-> frameDt(delta), ticks |-> 0, travelled |-> XInt(0)]

\* One tick of line 466 for the vehicle, car.speed * dt added to the distance
lapTick(l) ==
  [l EXCEPT !.car = updateCar(@, l.dt).car,
            !.ticks = @ + 1,
            !.travelled = XAdd(@, DMul(l.car.speed, l.dt))]

InitWrap ==
  /\ InitProgram
  /\ \E seed \in Randoms, i \in 1..LapCars, delta \in LapDeltas :
       /\ DMul(bootCars(seed)[i].speed, frameDt(delta)) \in {DFromInt(1), DDivInt(DFromInt(1), 2)}
       /\ lap = <<lapStart(bootCars(seed)[i], delta)>>

LapTick ==
  /\ lap # <<>>
  /\ XCmp(lap[1].travelled, XInt(lap[1].car.length)) < 0
  /\ lap' = <<lapTick(lap[1])>>
  /\ UNCHANGED <<booted, city, buildingDensity, isNight, scene, hud, disposal, disposed,
                 history, lastDt, frames>>

NextWrap == LapTick

SpecWrap == InitWrap /\ [][NextWrap]_vars

\* The distances of the ticks so far sum to exactly the cycle length
lapDone(l) == l.ticks > 0 /\ XCmp(l.travelled, XInt(l.car.length)) = 0

\* C9 as claimed: after ticks whose distances car.speed * dt sum to exactly
\* the cycle length, t equals the t before them.
C9_WrapExact == \A k \in 1..Len(lap) : lapDone(lap[k]) => lap[k].car.t = lap[k].t0

\* |x - y| on the circle [0, 1) is at most n * 2^-52
nearOnCircle(d, n) ==
  \/ XCmp(d, [m |-> BFromInt(n), e |-> -52]) <= 0
  \/ XCmp(XAdd(d, [m |-> BFromInt(n), e |-> -52]), XInt(1)) >= 0

\* C9 amended: after n ticks whose distances car.speed * dt sum to exactly
\* the cycle length, t differs from the t before them by at most n * 2^-52 on
\* the circle [0, 1).
C9_WrapWithinRounding ==
  \A k \in 1..Len(lap) :
    lapDone(lap[k]) => nearOnCircle(XAbsDiff(lap[k].car.t, lap[k].t0), lap[k].ticks)

\* A completed cycle that did not return t exactly
C9_Witness ==
  \E k \in 1..Len(lap) : lapDone(lap[k]) /\ lap[k].car.t # lap[k].t0
====
